---- MODULE Spec2Model ----
(***************************************************************************)
(* Model of the streaming-video repository: the frame-rate tap             *)
(* (probe_callback) and the discovery registry (task2/discovery/app.py).   *)
(***************************************************************************)
EXTENDS Integers, Sequences, FiniteSets, TLC

(***************************************************************************)
(* Bounds                                                                  *)
(***************************************************************************)
\* Width of a presentation timestamp in the model.  GStreamer's
\* GstClockTime is a guint64; the model keeps the same layout (all ones is
\* CLOCK_TIME_NONE) at a width TLC can enumerate.
PtsBits == 3
\* Number of frames with a buffer delivered to one tap.
MaxFrames == 4
\* Largest reading of the registry's wall clock.
MaxNow == 1

(***************************************************************************)
(* Frame-rate tap                                                          *)
(***************************************************************************)
VARIABLES probe_state, overlay_text, probe_ret, pts_trace, tap_last
VARIABLES broadcasts, now, reg_last
VARIABLES handlers
VARIABLES appsink_queue, new_sample_pending, last_caps, appsrc_caps,
          arrived, pulled, pushed, bridge_ret
VARIABLES fps_probe_state, textoverlay_text, fps_probe_ret, fps_trace
VARIABLES cb_pc, cb_caps, cb_changed, main_pc
VARIABLES pad_handler, pad_peer, sink_peer, pad_log
VARIABLES bc_args, bc_pc, mount_path, bc_media, bc_builds, bc_reg, bc_dereg
VARIABLES cons_args, cons_pc, cons_requested, cons_listed, cons_location,
          cons_probe, pipeline_state, cons_play, cons_last_msg,
          cons_stop_cause, cons_exit

tapVars == <<probe_state, overlay_text, probe_ret, pts_trace, tap_last>>
regVars == <<broadcasts, now, reg_last>>
bridgeVars == <<appsink_queue, new_sample_pending, last_caps, appsrc_caps,
                arrived, pulled, pushed, bridge_ret>>
btapVars == <<fps_probe_state, textoverlay_text, fps_probe_ret, fps_trace>>
thrVars == <<cb_pc, cb_caps, cb_changed, main_pc>>
padVars == <<pad_handler, pad_peer, sink_peer, pad_log>>
bcVars == <<bc_args, bc_pc, mount_path, bc_media, bc_builds, bc_reg,
            bc_dereg>>
consVars == <<cons_args, cons_pc, cons_requested, cons_listed, cons_location,
              cons_probe, pipeline_state, cons_play, cons_last_msg,
              cons_stop_cause, cons_exit>>
vars == <<tapVars, regVars, handlers, bridgeVars, btapVars, thrVars, padVars,
          bcVars, consVars>>

\* What a step of one component leaves alone.
nonTapVars ==
    <<regVars, handlers, bridgeVars, btapVars, thrVars, padVars, bcVars,
      consVars>>
nonRegVars ==
    <<tapVars, handlers, bridgeVars, btapVars, thrVars, padVars, bcVars,
      consVars>>
nonBridgeVars ==
    <<tapVars, regVars, handlers, btapVars, thrVars, padVars, bcVars,
      consVars>>
nonBridgeTapVars ==
    <<tapVars, regVars, handlers, bridgeVars, thrVars, padVars, bcVars,
      consVars>>
nonPadVars ==
    <<tapVars, regVars, handlers, bridgeVars, btapVars, thrVars, bcVars,
      consVars>>
\* The threads of the bridge consumer share last_caps and appsrc_caps with
\* the bridge; their steps leave these alone.
nonThreadVars ==
    <<tapVars, regVars, handlers, btapVars, padVars, bcVars, consVars,
      appsink_queue, new_sample_pending, arrived, pulled, pushed,
      bridge_ret>>
\* The broadcaster and the consumer call the registry: their steps leave
\* these alone.
nonSessionVars ==
    <<tapVars, handlers, bridgeVars, btapVars, thrVars, padVars>>
\* The request handlers running in the registry's threads work on
\* `broadcasts`; their steps leave these alone.
nonHandlerVars == <<tapVars, now, reg_last, bridgeVars, btapVars, thrVars,
                    padVars, bcVars, consVars>>

\* Gst.CLOCK_TIME_NONE: the all-ones timestamp.
CLOCK_TIME_NONE == 2^PtsBits - 1

\* Every value buffer.pts can take.
PtsValues == 0..CLOCK_TIME_NONE

\* The numerator of the rate: nanoseconds per second.
NS_PER_SECOND == 1000000000

\* Python's true division n / d for d # 0: the quotient, kept as the pair
\* it is the (correctly rounded) value of.  n / 0 raises ZeroDivisionError
\* and is never evaluated here (see DivRaises).
TrueDiv(n, d) == [num |-> n, den |-> d]

\* The float literal 0.0.
ZeroFps == [num |-> 0, den |-> 1]

\* 1_000_000_000 / delta_ns raises ZeroDivisionError.
DivRaises(previous_pts, current_pts_ns) ==
    previous_pts # CLOCK_TIME_NONE /\ current_pts_ns - previous_pts = 0

\* Mutant of ComputeFps: the subtraction with its operands swapped.
ComputeFpsSwapped(previous_pts, current_pts_ns) ==
    TrueDiv(NS_PER_SECOND, previous_pts - current_pts_ns)

\* delta_ns = current_pts_ns - previous_pts; fps = 1_000_000_000 / delta_ns
ComputeFps(previous_pts, current_pts_ns) ==
    TrueDiv(NS_PER_SECOND, current_pts_ns - previous_pts)

\* The rate the callback stores for a frame.
NextFps(previous_pts, current_pts_ns) ==
    IF previous_pts # CLOCK_TIME_NONE
    THEN ComputeFps(previous_pts, current_pts_ns)
    ELSE ZeroFps

IsNegative(f) == (f.num > 0 /\ f.den < 0) \/ (f.num < 0 /\ f.den > 0)

Abs(x) == IF x < 0 THEN 0 - x ELSE x

\* f"{fps:.1f}": sign, integer part and one decimal, rounded to nearest
\* (ties to even; no quotient of NS_PER_SECOND by a delta below 2048 is a
\* tie).
Format1f(f) ==
    LET a == Abs(f.den)
        n == Abs(f.num)
        q == n \div a
        r == n % a
        t == (r * 10) \div a
        r2 == (r * 10) % a
        up == (2 * r2 > a) \/ (2 * r2 = a /\ t % 2 = 1)
        t2 == IF up THEN t + 1 ELSE t
    IN  [neg |-> IsNegative(f),
         whole |-> IF t2 = 10 THEN q + 1 ELSE q,
         tenth |-> IF t2 = 10 THEN 0 ELSE t2]

\* f"Broadcast FPS: {probe_state['current_fps']:.1f}"
FpsDisplayText(f) == [prefix |-> "Broadcast FPS:", value |-> Format1f(f)]

NoText == [prefix |-> "", value |-> Format1f(ZeroFps)]

\* Mutant of ReturnAfterSet: a failed set_property leaves the callback as
\* an exception.
ReturnAfterSetRaises(set_ok) == IF set_ok THEN "OK" ELSE "Exception"

\* What probe_callback returns after the try block around set_property:
\* an exception of set_property is caught and printed, and the callback
\* returns Gst.PadProbeReturn.OK.
ReturnAfterSet(set_ok) == "OK"

TapInit ==
    /\ probe_state = [previous_pts |-> CLOCK_TIME_NONE, current_fps |-> ZeroFps]
    /\ overlay_text = NoText
    /\ probe_ret = "none"
    /\ pts_trace = <<>>
    /\ tap_last = [buffer |-> FALSE, pts |-> 0, prev |-> CLOCK_TIME_NONE,
                   set |-> "not_called", ret |-> "none"]

\* probe_callback for a probe info without a buffer: returns OK at once.
probe_callback_no_buffer ==
    /\ probe_ret' = "OK"
    /\ tap_last' = [buffer |-> FALSE, pts |-> 0,
                    prev |-> probe_state.previous_pts, set |-> "not_called",
                    ret |-> "OK"]
    /\ UNCHANGED <<probe_state, overlay_text, pts_trace>>

\* probe_callback for a buffer with presentation timestamp current_pts_ns;
\* set_ok is whether textoverlay_element.set_property succeeds.
probe_callback(current_pts_ns, set_ok) ==
    /\ Len(pts_trace) < MaxFrames
    /\ pts_trace' = Append(pts_trace, current_pts_ns)
    /\ IF DivRaises(probe_state.previous_pts, current_pts_ns)
       THEN \* ZeroDivisionError leaves the callback before any store
            /\ probe_ret' = "ZeroDivisionError"
            /\ UNCHANGED <<probe_state, overlay_text>>
       ELSE /\ probe_state' =
                 [previous_pts |-> current_pts_ns,
                  current_fps |-> NextFps(probe_state.previous_pts,
                                          current_pts_ns)]
            /\ overlay_text' =
                 IF set_ok THEN FpsDisplayText(probe_state'.current_fps)
                 ELSE overlay_text
            /\ probe_ret' = ReturnAfterSet(set_ok)
    /\ tap_last' = [buffer |-> TRUE, pts |-> current_pts_ns,
                    prev |-> probe_state.previous_pts,
                    set |-> IF probe_ret' = "ZeroDivisionError"
                            THEN "not_called"
                            ELSE IF set_ok THEN "ok" ELSE "failed",
                    ret |-> probe_ret']

TapNext ==
    \/ probe_callback_no_buffer /\ UNCHANGED nonTapVars
    \/ \E p \in PtsValues, ok \in BOOLEAN :
          probe_callback(p, ok) /\ UNCHANGED nonTapVars

(***************************************************************************)
(* Discovery registry                                                      *)
(***************************************************************************)
\* JSON null / Python None.
None == "<None>"
\* A key the request body does not carry.
Absent == "<absent>"

\* Ids a client can supply.  A client is free to supply an id of the shape
\* the registry generates.
ExplicitIds == {"cam1", "broadcaster-0000000a"}
\* Values of uuid.uuid4().hex[:8].
HexSuffixes == {"0000000a", "0000000b"}
StreamUrls == {"rtsp://h:5051/cam1", "rtsp://h:5051/cam2"}

\* f"broadcaster-{uuid.uuid4().hex[:8]}"
GeneratedId(hex8) == "broadcaster-" \o hex8

\* The JSON body of a POST: a dict holding the keys that are present.
RequestBody(bid, url) ==
    IF bid = Absent /\ url = Absent THEN [x \in {} |-> None]
    ELSE IF bid = Absent THEN [x \in {"stream_url"} |-> url]
    ELSE IF url = Absent THEN [x \in {"broadcaster_id"} |-> bid]
    ELSE [x \in {"broadcaster_id", "stream_url"} |->
            IF x = "broadcaster_id" THEN bid ELSE url]

\* broadcasts is a Python dict: a sequence of entries in insertion order,
\* with at most one entry per key.
DictKeys(d) == {d[i].key : i \in 1..Len(d)}
DictHas(d, k) == \E i \in 1..Len(d) : d[i].key = k
DictIndex(d, k) == CHOOSE i \in 1..Len(d) : d[i].key = k
DictGet(d, k) == d[DictIndex(d, k)].value

\* Mutant of DictSet: a store that never looks for the key.
DictSetAppend(d, k, v) == Append(d, [key |-> k, value |-> v])

\* d[k] = v: replaces the value in place, or appends a new entry.
DictSet(d, k, v) ==
    IF DictHas(d, k)
    THEN [d EXCEPT ![DictIndex(d, k)] = [key |-> k, value |-> v]]
    ELSE Append(d, [key |-> k, value |-> v])

\* Mutant of DictDel: removes the oldest entry, whatever its key.
DictDelOldest(d, k) == Tail(d)

\* Mutant of DictDel: drops the entry and everything stored after it.
DictDelTail(d, k) == SubSeq(d, 1, DictIndex(d, k) - 1)

\* del d[k] for a key that is present.
DictDel(d, k) ==
    LET i == DictIndex(d, k)
    IN  SubSeq(d, 1, i - 1) \o SubSeq(d, i + 1, Len(d))

\* list(d.values())
DictValues(d) == [i \in 1..Len(d) |-> d[i].value]

NoBody == <<>>

RegInit ==
    /\ broadcasts = <<>>
    /\ now = 0
    /\ reg_last = [op |-> "none", data |-> RequestBody(Absent, Absent),
                   id |-> None, status |-> 0, body |-> NoBody,
                   before |-> <<>>]

\* Mutant of Tick: records created before the new time expire.
TickExpiring ==
    /\ now < MaxNow
    /\ now' = now + 1
    /\ broadcasts' = SelectSeq(broadcasts,
                               LAMBDA e : e.value.created_at >= now + 1)
    /\ UNCHANGED reg_last

\* datetime.datetime.now(datetime.timezone.utc) moves on.
Tick ==
    /\ now < MaxNow
    /\ now' = now + 1
    /\ UNCHANGED <<broadcasts, reg_last>>

\* The response and effect of POST /broadcasts with body data, where hex8
\* is the value uuid4 would yield.
RegisterOutcome(data, hex8) ==
    IF "stream_url" \notin DOMAIN data
    THEN [status |-> 500, id |-> None, store |-> FALSE]     \* KeyError
    ELSE IF data["stream_url"] = None
    THEN [status |-> 400, id |-> None, store |-> FALSE]
    ELSE IF "broadcaster_id" \notin DOMAIN data
    THEN [status |-> 500, id |-> None, store |-> FALSE]     \* KeyError
    ELSE [status |-> 201,
          id |-> IF data["broadcaster_id"] = None THEN GeneratedId(hex8)
                 ELSE data["broadcaster_id"],
          store |-> TRUE]

\* The record register_broadcast stores.
NewRecord(data) ==
    [broadcaster_id |-> data["broadcaster_id"],
     stream_url |-> data["stream_url"],
     status |-> "active",
     created_at |-> now]

\* POST /broadcasts
register_broadcast(data, hex8) ==
    LET out == RegisterOutcome(data, hex8)
    IN  /\ broadcasts' = IF out.store
                         THEN DictSet(broadcasts, out.id, NewRecord(data))
                         ELSE broadcasts
        /\ reg_last' = [op |-> "register", data |-> data, id |-> out.id,
                        status |-> out.status,
                        body |-> IF out.store
                                 THEN <<DictGet(broadcasts', out.id)>>
                                 ELSE NoBody,
                        before |-> broadcasts]
        /\ UNCHANGED now

\* GET /broadcasts
list_broadcasts ==
    /\ reg_last' = [op |-> "list", data |-> RequestBody(Absent, Absent),
                    id |-> None, status |-> 200,
                    body |-> DictValues(broadcasts), before |-> broadcasts]
    /\ UNCHANGED <<broadcasts, now>>

\* Mutant of delete_broadcast: the membership test is dropped and an
\* unknown id empties the mapping.
delete_broadcast_unchecked(broadcaster_id) ==
    /\ broadcasts' = IF DictHas(broadcasts, broadcaster_id)
                     THEN DictDel(broadcasts, broadcaster_id)
                     ELSE <<>>
    /\ reg_last' = [op |-> "delete", data |-> RequestBody(Absent, Absent),
                    id |-> broadcaster_id, status |-> 204, body |-> NoBody,
                    before |-> broadcasts]
    /\ UNCHANGED now

\* DELETE /broadcasts/<broadcaster_id>
delete_broadcast(broadcaster_id) ==
    /\ IF DictHas(broadcasts, broadcaster_id)
       THEN /\ broadcasts' = DictDel(broadcasts, broadcaster_id)
            /\ reg_last' = [op |-> "delete",
                            data |-> RequestBody(Absent, Absent),
                            id |-> broadcaster_id, status |-> 204,
                            body |-> NoBody, before |-> broadcasts]
       ELSE /\ broadcasts' = broadcasts
            /\ reg_last' = [op |-> "delete",
                            data |-> RequestBody(Absent, Absent),
                            id |-> broadcaster_id, status |-> 404,
                            body |-> NoBody, before |-> broadcasts]
    /\ UNCHANGED now

\* Every id a DELETE can name.
RequestIds == ExplicitIds \cup {GeneratedId(h) : h \in HexSuffixes}

RegNext ==
    \/ Tick /\ UNCHANGED nonRegVars
    \/ \E bid \in ExplicitIds \cup {None, Absent},
          url \in StreamUrls \cup {None, Absent}, h \in HexSuffixes :
          register_broadcast(RequestBody(bid, url), h)
              /\ UNCHANGED nonRegVars
    \/ list_broadcasts /\ UNCHANGED nonRegVars
    \/ \E id \in RequestIds : delete_broadcast(id) /\ UNCHANGED nonRegVars


(***************************************************************************)
(* Frame bridge (task1/video_consumer_with_opencv.py)                      *)
(***************************************************************************)
\* Largest value of a buffer's pts, dts, duration and offset in the model.
MaxStamp == 1
\* Number of samples the bridge pulls.
MaxSamples == 2

\* appsink.set_property("max-buffers", 1)
MAX_BUFFERS == 1

\* sample.get_caps() returning None.
NoCaps == "<no caps>"
SampleCaps == {"video/x-raw,format=BGR,width=2,height=2",
               "video/x-raw,format=BGR,width=4,height=2"}

\* The buffers the receiving segment can deliver.
SampleBuffers ==
    [pts : 0..MaxStamp, dts : 0..MaxStamp, duration : 0..MaxStamp,
     offset : 0..MaxStamp, data : {"raw"}]

Samples == [buffer : SampleBuffers, caps : SampleCaps \cup {NoCaps}]

\* Results of appsrc.emit("push-buffer", ...).
FlowReturns == {"OK", "FLUSHING", "EOS"}

\* process_frame_opencv(frame.copy()): the transformed pixels.
process_frame_opencv(frame) == "processed"

\* Mutant of AppsinkEnqueue: a sample arriving at a full queue is the one
\* thrown away.
AppsinkEnqueueDropNewest(q, sample) ==
    IF Len(q) >= MAX_BUFFERS THEN q ELSE Append(q, sample)

\* appsink with max-buffers=1 and drop=True: a sample arriving at a full
\* queue pushes the oldest one out.
AppsinkEnqueue(q, sample) ==
    IF Len(q) >= MAX_BUFFERS THEN Append(Tail(q), sample)
    ELSE Append(q, sample)

\* Mutant of NewBuffer: the decode timestamp is taken from the
\* presentation timestamp.
NewBufferDtsFromPts(buffer, processed_frame) ==
    [pts |-> buffer.pts, dts |-> buffer.pts, duration |-> buffer.duration,
     offset |-> buffer.offset, data |-> processed_frame]

\* Gst.Buffer.new_wrapped(processed_frame.tobytes()) and the four copies
\* new_buffer.pts/dts/duration/offset = buffer.pts/dts/duration/offset.
NewBuffer(buffer, processed_frame) ==
    [pts |-> buffer.pts, dts |-> buffer.dts, duration |-> buffer.duration,
     offset |-> buffer.offset, data |-> processed_frame]

\* Mutant of CapsChanged: only the first descriptor is taken.
CapsChangedFirstOnly(last, caps) == last = NoCaps

\* last_caps is None or not caps.is_equal(last_caps)
CapsChanged(last, caps) == last = NoCaps \/ caps # last

\* Mutant of ReturnAfterPush: the result of the push is handed on.
ReturnAfterPushHandsOn(retval) ==
    IF retval = "OK" THEN "OK" ELSE "ERROR"

\* What on_new_sample returns once push-buffer has returned retval: a
\* result other than OK is printed, and the callback returns OK.
ReturnAfterPush(retval) == "OK"

\* Mutant of push_buffer: the buffer is emitted twice.
push_buffer_twice(q, entry) == Append(Append(q, entry), entry)

\* appsrc.emit("push-buffer", new_buffer): one buffer handed to the push
\* side, after those handed over before.
push_buffer(q, entry) == Append(q, entry)

BridgeInit ==
    /\ appsink_queue = <<>>
    /\ new_sample_pending = FALSE
    /\ last_caps = NoCaps
    /\ appsrc_caps = NoCaps
    /\ arrived = <<>>
    /\ pulled = <<>>
    /\ pushed = <<>>
    /\ bridge_ret = "none"

\* The receiving segment delivers a sample to the appsink, which queues it
\* and emits "new-sample" on the streaming thread.
SampleArrives(sample) ==
    /\ ~new_sample_pending
    /\ Len(pulled) < MaxSamples
    /\ appsink_queue' = AppsinkEnqueue(appsink_queue, sample)
    /\ new_sample_pending' = TRUE
    /\ UNCHANGED <<last_caps, appsrc_caps, arrived, pulled, pushed,
                   bridge_ret>>

\* The appsink is flushed (state change from the control thread) before the
\* callback has pulled.
AppsinkFlush ==
    /\ new_sample_pending
    /\ appsink_queue # <<>>
    /\ appsink_queue' = <<>>
    /\ UNCHANGED <<new_sample_pending, last_caps, appsrc_caps, arrived,
                   pulled, pushed, bridge_ret>>

\* on_new_sample(appsink); map_ok is the result of buffer.map and retval
\* the result of push-buffer.
on_new_sample(map_ok, retval) ==
    /\ new_sample_pending
    /\ new_sample_pending' = FALSE
    /\ UNCHANGED arrived
    /\ IF appsink_queue = <<>>
       THEN \* pull-sample gave no sample
            /\ bridge_ret' = "ERROR"
            /\ UNCHANGED <<appsink_queue, last_caps, appsrc_caps, pulled,
                           pushed>>
       ELSE LET sample == Head(appsink_queue)
                caps == sample.caps
                changed == CapsChanged(last_caps, caps)
            IN  /\ appsink_queue' = Tail(appsink_queue)
                /\ pulled' = Append(pulled, sample)
                /\ IF caps = NoCaps
                   THEN /\ bridge_ret' = "OK"
                        /\ UNCHANGED <<last_caps, appsrc_caps, pushed>>
                   ELSE /\ last_caps' = IF changed THEN caps ELSE last_caps
                        /\ appsrc_caps' = IF changed THEN caps
                                          ELSE appsrc_caps
                        /\ IF ~map_ok
                           THEN /\ bridge_ret' = "ERROR"
                                /\ UNCHANGED pushed
                           ELSE /\ pushed' = push_buffer(pushed,
                                      [buffer |-> NewBuffer(sample.buffer,
                                           process_frame_opencv(
                                               sample.buffer.data)),
                                       caps |-> appsrc_caps',
                                       from |-> Len(pulled'),
                                       retval |-> retval,
                                       returned |->
                                           ReturnAfterPush(retval)])
                                /\ bridge_ret' = ReturnAfterPush(retval)

BridgeNext ==
    \/ \E sample \in Samples : SampleArrives(sample)
                                 /\ UNCHANGED nonBridgeVars
    \/ AppsinkFlush /\ UNCHANGED nonBridgeVars
    \/ \E map_ok \in BOOLEAN, retval \in FlowReturns :
          on_new_sample(map_ok, retval) /\ UNCHANGED nonBridgeVars

\* The appsink as main configures it, fed and drained at any pace: the
\* receiving segment hands it a sample whether or not the earlier one has
\* been pulled.  `arrived` is the log of the samples handed over here.
appsink_render(sample) ==
    /\ Len(arrived) < MaxSamples
    /\ appsink_queue' = AppsinkEnqueue(appsink_queue, sample)
    /\ arrived' = Append(arrived, sample)
    /\ UNCHANGED <<new_sample_pending, last_caps, appsrc_caps, pulled,
                   pushed, bridge_ret>>

\* appsink.emit("pull-sample") with a sample queued.
appsink_pull_sample ==
    /\ appsink_queue # <<>>
    /\ pulled' = Append(pulled, Head(appsink_queue))
    /\ appsink_queue' = Tail(appsink_queue)
    /\ UNCHANGED <<new_sample_pending, last_caps, appsrc_caps, arrived,
                   pushed, bridge_ret>>

AppsinkNext ==
    \/ \E sample \in Samples : appsink_render(sample)
                                 /\ UNCHANGED nonBridgeVars
    \/ appsink_pull_sample /\ UNCHANGED nonBridgeVars

(***************************************************************************)
(* Frame-rate tap of the bridge consumer (fps_probe_callback)              *)
(***************************************************************************)
\* f"FPS: {fps_probe_state['current_fps']:.1f}"
BridgeFpsDisplayText(f) == [prefix |-> "FPS:", value |-> Format1f(f)]

\* fps_probe_state = {'prev_pts': Gst.CLOCK_TIME_NONE, 'current_fps': 0.0}
BridgeTapInit ==
    /\ fps_probe_state = [prev_pts |-> CLOCK_TIME_NONE,
                          current_fps |-> ZeroFps]
    /\ textoverlay_text = NoText
    /\ fps_probe_ret = "none"
    /\ fps_trace = <<>>

\* fps_probe_callback for a probe info without a buffer.
fps_probe_callback_no_buffer ==
    /\ fps_probe_ret' = "OK"
    /\ UNCHANGED <<fps_probe_state, textoverlay_text, fps_trace>>

\* fps_probe_callback for a buffer with presentation timestamp current_pts;
\* set_ok is whether textoverlay.set_property succeeds.  The callback
\* reads fps_probe_state['previous_pts'], a key the dictionary does not
\* have unless something has stored it.
fps_probe_callback(current_pts, set_ok) ==
    /\ Len(fps_trace) < MaxFrames
    /\ fps_trace' = Append(fps_trace, [pts |-> current_pts, set_ok |-> set_ok])
    /\ IF "previous_pts" \notin DOMAIN fps_probe_state
       THEN /\ fps_probe_ret' = "KeyError"
            /\ UNCHANGED <<fps_probe_state, textoverlay_text>>
       ELSE IF fps_probe_state["previous_pts"] # CLOCK_TIME_NONE
               /\ current_pts = fps_probe_state["prev_pts"]
       THEN /\ fps_probe_ret' = "ZeroDivisionError"
            /\ UNCHANGED <<fps_probe_state, textoverlay_text>>
       ELSE /\ fps_probe_state' =
                 [fps_probe_state EXCEPT
                    !["current_fps"] =
                        IF fps_probe_state["previous_pts"] # CLOCK_TIME_NONE
                        THEN ComputeFps(fps_probe_state["prev_pts"],
                                        current_pts)
                        ELSE ZeroFps,
                    !["prev_pts"] = current_pts]
            /\ textoverlay_text' =
                 IF set_ok
                 THEN BridgeFpsDisplayText(fps_probe_state'["current_fps"])
                 ELSE textoverlay_text
            /\ fps_probe_ret' = "OK"

BridgeTapNext ==
    \/ fps_probe_callback_no_buffer /\ UNCHANGED nonBridgeTapVars
    \/ \E p \in PtsValues, ok \in BOOLEAN :
          fps_probe_callback(p, ok) /\ UNCHANGED nonBridgeTapVars

(***************************************************************************)
(* Threads of the bridge consumer: on_new_sample step by step on the       *)
(* appsink's streaming thread, main on the control thread                  *)
(***************************************************************************)
\* Number of "new-sample" emissions.
MaxCallbacks == 3

Invocations == 1..MaxCallbacks

\* Mutant of StreamingThreadFree: a second streaming thread emits
\* "new-sample" while a handler is running.
StreamingThreadAlwaysFree == TRUE

\* appsink.connect("new-sample", on_new_sample): the handler runs inside
\* the emission, on the one streaming thread of the appsink's sink pad, so
\* the next emission waits for the handler to return.
StreamingThreadFree == \A i \in Invocations : cb_pc[i] \in {"idle", "done"}

\* The module globals a step of main reads at each position: `loop` in
\* loop.run(), `pipeline` in the finally block.
MainReads(pc) ==
    CASE pc = "loop" -> {"loop"}
      [] pc = "stopping" -> {"pipeline"}
      [] OTHER -> {}

ThreadsInit ==
    /\ cb_pc = [i \in Invocations |-> "idle"]
    /\ cb_caps = [i \in Invocations |-> NoCaps]
    /\ cb_changed = [i \in Invocations |-> FALSE]
    /\ main_pc = "loop"

\* sample = appsink.emit("pull-sample"); caps = sample.get_caps()
cb_pull(i, caps) ==
    /\ main_pc \in {"loop", "stopping"}
    /\ cb_pc[i] = "idle"
    /\ \A j \in 1..(i - 1) : cb_pc[j] # "idle"
    /\ StreamingThreadFree
    /\ cb_caps' = [cb_caps EXCEPT ![i] = caps]
    /\ cb_pc' = [cb_pc EXCEPT ![i] = IF caps = NoCaps THEN "done"
                                     ELSE "pulled"]
    /\ UNCHANGED <<cb_changed, main_pc, last_caps, appsrc_caps>>

\* if last_caps is None or not caps.is_equal(last_caps):
cb_compare(i) ==
    /\ cb_pc[i] = "pulled"
    /\ cb_changed' = [cb_changed EXCEPT
                         ![i] = CapsChanged(last_caps, cb_caps[i])]
    /\ cb_pc' = [cb_pc EXCEPT ![i] = IF cb_changed'[i] THEN "compared"
                                     ELSE "done"]
    /\ UNCHANGED <<cb_caps, main_pc, last_caps, appsrc_caps>>

\* last_caps = caps
cb_store(i) ==
    /\ cb_pc[i] = "compared"
    /\ last_caps' = cb_caps[i]
    /\ cb_pc' = [cb_pc EXCEPT ![i] = "stored"]
    /\ UNCHANGED <<cb_caps, cb_changed, main_pc, appsrc_caps>>

\* appsrc.set_caps(last_caps)
cb_set_caps(i) ==
    /\ cb_pc[i] = "stored"
    /\ appsrc_caps' = last_caps
    /\ cb_pc' = [cb_pc EXCEPT ![i] = "done"]
    /\ UNCHANGED <<cb_caps, cb_changed, main_pc, last_caps>>

\* loop.run() returns (loop.quit() from on_message, or Ctrl+C).
main_loop_returns ==
    /\ main_pc = "loop"
    /\ main_pc' = "stopping"
    /\ UNCHANGED <<cb_pc, cb_caps, cb_changed, last_caps, appsrc_caps>>

\* finally: pipeline.set_state(Gst.State.NULL), which returns when the
\* streaming thread has stopped.
main_finally ==
    /\ main_pc = "stopping"
    /\ StreamingThreadFree
    /\ main_pc' = "stopped"
    /\ UNCHANGED <<cb_pc, cb_caps, cb_changed, last_caps, appsrc_caps>>

ThreadsNext ==
    \/ \E i \in Invocations, caps \in SampleCaps \cup {NoCaps} :
          cb_pull(i, caps) /\ UNCHANGED nonThreadVars
    \/ \E i \in Invocations : cb_compare(i) /\ UNCHANGED nonThreadVars
    \/ \E i \in Invocations : cb_store(i) /\ UNCHANGED nonThreadVars
    \/ \E i \in Invocations : cb_set_caps(i) /\ UNCHANGED nonThreadVars
    \/ main_loop_returns /\ UNCHANGED nonThreadVars
    \/ main_finally /\ UNCHANGED nonThreadVars

(***************************************************************************)
(* Deferred pad linking (on_pad_added_for_file, on_pad_added)              *)
(***************************************************************************)
\* Number of "pad-added" callbacks delivered for one pad.
MaxPadEvents == 2

\* The pads decodebin can expose, with the media type of their caps: two
\* raw video streams, an audio stream, and a pad that has no caps yet.
PadNames == {"src_0", "src_1", "src_2", "src_3"}
PadCaps(pad) ==
    CASE pad = "src_0" -> "video/x-raw"
      [] pad = "src_1" -> "audio/x-raw"
      [] pad = "src_2" -> "video/x-raw"
      [] OTHER -> NoCaps

\* The two handlers: the broadcaster's (file source) and the bridge
\* consumer's.
PadHandlers == {"on_pad_added_for_file", "on_pad_added"}

Unlinked == "<unlinked>"

\* Mutant of IsRawVideo: every pad that has caps passes.
IsRawVideoAnyCaps(caps) == caps # NoCaps

\* caps.to_string().startswith("video/x-raw") /
\* struct.get_name().startswith("video/x-raw")
IsRawVideo(caps) == caps \in {"video/x-raw"}

\* Mutant of PadLinkReturn: a sink pad that has a peer takes the new link.
PadLinkReturnRelinks(src_peer, target_peer, engine_ok) ==
    IF src_peer # Unlinked THEN "WAS_LINKED"
    ELSE IF engine_ok THEN "OK"
    ELSE "NOFORMAT"

\* pad.link(target_pad): a pad that already has a peer, on either side, is
\* refused (WAS_LINKED); otherwise the engine accepts or refuses the link.
PadLinkReturn(src_peer, target_peer, engine_ok) ==
    IF src_peer # Unlinked \/ target_peer # Unlinked THEN "WAS_LINKED"
    ELSE IF engine_ok THEN "OK"
    ELSE "NOFORMAT"

\* Mutant of PadAddedOutcome: the pad.is_linked() test is missing.
PadAddedOutcomeNoGuard(handler, src_peer, caps, target_peer, engine_ok) ==
    IF caps = NoCaps
    THEN IF handler = "on_pad_added" THEN "AttributeError" ELSE "ignored"
    ELSE IF IsRawVideo(caps)
    THEN IF PadLinkReturn(src_peer, target_peer, engine_ok) = "OK"
         THEN "linked" ELSE "link_failed"
    ELSE "ignored"

\* What one invocation of the handler does for a pad: returns at once for a
\* linked pad, links a raw video pad (printing an error when the link is
\* refused), ignores any other pad.  on_pad_added reads the structure of
\* pad.get_current_caps() without testing it for None.
PadAddedOutcome(handler, src_peer, caps, target_peer, engine_ok) ==
    IF src_peer # Unlinked THEN "already_linked"
    ELSE IF caps = NoCaps
    THEN IF handler = "on_pad_added" THEN "AttributeError" ELSE "ignored"
    ELSE IF IsRawVideo(caps)
    THEN IF PadLinkReturn(src_peer, target_peer, engine_ok) = "OK"
         THEN "linked" ELSE "link_failed"
    ELSE "ignored"

PadInit ==
    /\ pad_handler = "none"
    /\ pad_peer = [p \in PadNames |-> Unlinked]
    /\ sink_peer = Unlinked
    /\ pad_log = [p \in PadNames |-> <<>>]

\* decodebin.connect("pad-added", handler)
connect_pad_added(handler) ==
    /\ pad_handler = "none"
    /\ pad_handler' = handler
    /\ UNCHANGED <<pad_peer, sink_peer, pad_log>>

\* decodebin emits "pad-added" for pad and the handler runs.
on_pad_added(pad, engine_ok) ==
    LET outcome == PadAddedOutcome(pad_handler, pad_peer[pad], PadCaps(pad),
                                   sink_peer, engine_ok)
    IN  /\ pad_handler \in PadHandlers
        /\ Len(pad_log[pad]) < MaxPadEvents
        /\ pad_log' = [pad_log EXCEPT ![pad] = Append(@, outcome)]
        /\ pad_peer' = IF outcome = "linked"
                       THEN [pad_peer EXCEPT ![pad] = "sink"]
                       ELSE pad_peer
        /\ sink_peer' = IF outcome = "linked" THEN pad ELSE sink_peer
        /\ UNCHANGED pad_handler

PadNext ==
    \/ \E handler \in PadHandlers :
          connect_pad_added(handler) /\ UNCHANGED nonPadVars
    \/ \E pad \in PadNames, engine_ok \in BOOLEAN :
          on_pad_added(pad, engine_ok) /\ UNCHANGED nonPadVars

(***************************************************************************)
(* Broadcaster session (task2/broadcaster/video_broadcast.py)              *)
(***************************************************************************)
\* Number of times the RTSP server asks the factory for a graph.
MaxBuilds == 2

RTSP_PORT == "5051"

\* Names given as --broadcaster_id, as in the help text ("cam1") and in the
\* form of a mount path ("/cam1").
BroadcasterNames == {"cam1"}
BroadcasterIds == BroadcasterNames \cup {"/" \o n : n \in BroadcasterNames}
SrcTypes == {"webcam", "disk"}

\* server.get_address() or "localhost"
ServerAddresses == {"0.0.0.0", "localhost"}

\* f"rtsp://{server_address}:{RTSP_PORT}{broadcaster_id}"
StreamUrl(server_address, broadcaster_id) ==
    "rtsp://" \o server_address \o ":" \o RTSP_PORT \o broadcaster_id

\* The payload register_broadcaster posts.
RegisterPayload(broadcaster_id, server_address) ==
    RequestBody(broadcaster_id, StreamUrl(server_address, broadcaster_id))

\* No rule of the registry matches the request path.
NotRouted == "<404 no route>"

\* Routing of DELETE f"{DISCOVERY_SERVER_URL}/broadcasts/{broadcaster_id}"
\* against the rule '/broadcasts/<broadcaster_id>', whose converter takes
\* any text without a slash: an id without a slash is the argument; for an
\* id with a leading slash the path has an empty segment, which the router
\* either merges away (redirect to /broadcasts/<name>) or does not match.
RouteDelete(broadcaster_id, merge_slashes) ==
    IF broadcaster_id \in BroadcasterNames THEN broadcaster_id
    ELSE IF merge_slashes
    THEN CHOOSE n \in BroadcasterNames : broadcaster_id = "/" \o n
    ELSE NotRouted

\* What do_create_element returns: no graph ("failed": an element is not
\* created, a static link is refused, or parse_launch raises), a graph with
\* the probe attached ("built"), or a graph whose probe set-up raised and
\* was only printed ("built_no_probe").
DoCreateElement(src_type, created, linked, located) ==
    IF ~created THEN "failed"
    ELSE IF src_type = "disk" /\ ~linked THEN "failed"
    ELSE IF located THEN "built"
    ELSE "built_no_probe"

NotCalled ==
    [called |-> FALSE, id |-> None, stream_url |-> None, reachable |-> FALSE,
     status |-> 0, raised |-> FALSE, calls |-> 0, after |-> <<>>]

BroadcasterInit ==
    /\ bc_args = [broadcaster_id |-> None, src_type |-> None]
    /\ bc_pc = "start"
    /\ mount_path = None
    /\ bc_media = "none"
    /\ bc_builds = 0
    /\ bc_reg = NotCalled
    /\ bc_dereg = NotCalled

\* main up to server.attach: the arguments are parsed and the factory is
\* mounted on the broadcaster id.
bc_mount(args) ==
    /\ bc_pc = "start"
    /\ bc_args' = args
    /\ mount_path' = args.broadcaster_id
    /\ bc_pc' = "mounted"
    /\ UNCHANGED <<bc_media, bc_builds, bc_reg, bc_dereg>>
    /\ UNCHANGED regVars

\* register_broadcaster(args.broadcaster_id, server_address) called from
\* main.  With the registry unreachable requests.post raises, the handler
\* reads the unassigned local `response` and the UnboundLocalError leaves
\* main before the try block.
bc_register(server_address, reachable) ==
    /\ bc_pc = "mounted"
    /\ IF reachable
       THEN /\ \E h \in HexSuffixes :
                 register_broadcast(
                     RegisterPayload(bc_args.broadcaster_id, server_address),
                     h)
            /\ bc_pc' = "loop"
       ELSE /\ UNCHANGED regVars
            /\ bc_pc' = "crashed"
    /\ bc_reg' = [called |-> TRUE, id |-> bc_args.broadcaster_id,
                  stream_url |-> StreamUrl(server_address,
                                           bc_args.broadcaster_id),
                  reachable |-> reachable,
                  status |-> IF reachable THEN reg_last'.status ELSE 0,
                  raised |-> ~reachable, calls |-> bc_reg.calls + 1,
                  after |-> broadcasts']
    /\ UNCHANGED <<bc_args, mount_path, bc_media, bc_builds, bc_dereg>>

\* A client connects while the loop runs and the shared factory has no
\* graph yet: the server calls do_create_element.
bc_client_connects(created, linked, located) ==
    /\ bc_pc = "loop"
    /\ bc_media \in {"none", "failed"}
    /\ bc_builds < MaxBuilds
    /\ bc_builds' = bc_builds + 1
    /\ bc_media' = DoCreateElement(bc_args.src_type, created, linked, located)
    /\ UNCHANGED <<bc_args, bc_pc, mount_path, bc_reg, bc_dereg>>
    /\ UNCHANGED regVars

\* Ctrl+C while loop.run(): KeyboardInterrupt is caught and the finally
\* block is entered.
bc_interrupt ==
    /\ bc_pc = "loop"
    /\ bc_pc' = "finally"
    /\ UNCHANGED <<bc_args, mount_path, bc_media, bc_builds, bc_reg,
                   bc_dereg>>
    /\ UNCHANGED regVars

\* deregister_broadcaster(args.broadcaster_id) in the finally block, then
\* print("Server stopped").  An error status is printed; with the registry
\* unreachable the handler raises UnboundLocalError as in
\* register_broadcaster.
bc_deregister(reachable, merge_slashes) ==
    LET routed == RouteDelete(bc_args.broadcaster_id, merge_slashes)
    IN  /\ bc_pc = "finally"
        /\ IF ~reachable
           THEN /\ UNCHANGED regVars
                /\ bc_pc' = "crashed_in_finally"
           ELSE IF routed = NotRouted
           THEN /\ UNCHANGED regVars
                /\ bc_pc' = "stopped"
           ELSE /\ delete_broadcast(routed)
                /\ bc_pc' = "stopped"
        /\ bc_dereg' = [called |-> TRUE, id |-> bc_args.broadcaster_id,
                        stream_url |-> None, reachable |-> reachable,
                        status |-> IF ~reachable THEN 0
                                   ELSE IF routed = NotRouted THEN 404
                                   ELSE reg_last'.status,
                        raised |-> ~reachable, calls |-> bc_dereg.calls + 1,
                        after |-> broadcasts']
        /\ UNCHANGED <<bc_args, mount_path, bc_media, bc_builds, bc_reg>>

\* Stream endpoints of other broadcaster processes.
OtherUrls == {"rtsp://other:5051/cam1", "rtsp://other:5051/cam2"}

\* Another broadcaster process registers under id.
other_register(id, url) ==
    /\ \E h \in HexSuffixes : register_broadcast(RequestBody(id, url), h)
    /\ UNCHANGED bcVars

\* Another client deregisters a name.
other_deregister(id) ==
    /\ delete_broadcast(id)
    /\ UNCHANGED bcVars

BroadcasterNext ==
    \/ \E args \in [broadcaster_id : BroadcasterIds, src_type : SrcTypes] :
          bc_mount(args) /\ UNCHANGED <<nonSessionVars, consVars>>
    \/ \E a \in ServerAddresses, reachable \in BOOLEAN :
          bc_register(a, reachable) /\ UNCHANGED <<nonSessionVars, consVars>>
    \/ \E created \in BOOLEAN, linked \in BOOLEAN, located \in BOOLEAN :
          bc_client_connects(created, linked, located)
              /\ UNCHANGED <<nonSessionVars, consVars>>
    \/ bc_interrupt /\ UNCHANGED <<nonSessionVars, consVars>>
    \/ \E reachable \in BOOLEAN, merge_slashes \in BOOLEAN :
          bc_deregister(reachable, merge_slashes)
              /\ UNCHANGED <<nonSessionVars, consVars>>
    \/ \E id \in BroadcasterIds :
          other_register(id, "rtsp://other:5051/cam1")
              /\ UNCHANGED <<nonSessionVars, consVars>>
    \/ \E id \in BroadcasterNames :
          other_deregister(id) /\ UNCHANGED <<nonSessionVars, consVars>>

(***************************************************************************)
(* Consumer session (task2/consumer/video_consumer.py)                     *)
(***************************************************************************)
\* What --broadcaster_id or the answer to the prompt can be.
ConsumerIds == BroadcasterIds \cup {"nobody"}

\* Results of pipeline.set_state(Gst.State.PLAYING).
StateChangeReturns == {"SUCCESS", "ASYNC", "NO_PREROLL", "FAILURE"}

\* Types of the messages the bus delivers to on_message.
MessageTypes == {"EOS", "ERROR", "WARNING", "STATE_CHANGED", "OTHER"}

\* Mutant of LookupStreamUrl: the first listed record is taken, whatever
\* its id.
LookupFirstUrl(broadcasts_list, broadcaster_id) ==
    IF broadcasts_list = <<>> THEN None ELSE broadcasts_list[1].stream_url

\* The loop of list_broadcasts: the stream_url of the first listed record
\* whose broadcaster_id is the requested one, else None.
LookupStreamUrl(broadcasts_list, broadcaster_id) ==
    LET hits == {i \in 1..Len(broadcasts_list) :
                    broadcasts_list[i].broadcaster_id = broadcaster_id}
    IN  IF hits = {} THEN None
        ELSE broadcasts_list[CHOOSE i \in hits : \A j \in hits : i <= j]
                 .stream_url

\* Mutant of PlayOutcome: a FAILURE result is not looked at.
PlayOutcomeUnchecked(ret) ==
    [pc |-> "playing", state |-> "PLAYING", exit |-> None]

\* main after set_state(PLAYING) has returned ret: on FAILURE the pipeline
\* is set to NULL and the process exits with 1, otherwise loop.run().
PlayOutcome(ret) ==
    IF ret = "FAILURE"
    THEN [pc |-> "exit_error", state |-> "NULL", exit |-> 1]
    ELSE [pc |-> "playing", state |-> "PLAYING", exit |-> None]

\* Mutant of MessageQuitsLoop: an ERROR message is only printed.
MessageQuitsLoopEosOnly(mtype) == mtype = "EOS"

\* on_message calls loop.quit() for these message types.
MessageQuitsLoop(mtype) == mtype \in {"EOS", "ERROR"}

ConsumerInit ==
    /\ cons_args = [broadcaster_id |-> "<unparsed>"]
    /\ cons_pc = "start"
    /\ cons_requested = None
    /\ cons_listed = <<>>
    /\ cons_location = None
    /\ cons_probe = FALSE
    /\ pipeline_state = "none"
    /\ cons_play = [calls |-> 0, ret |-> "none"]
    /\ cons_last_msg = "none"
    /\ cons_stop_cause = "none"
    /\ cons_exit = None

\* main with --broadcaster_id given: the id is the one to resolve.
cons_start_with_id(id) ==
    /\ cons_pc = "start"
    /\ cons_args' = [broadcaster_id |-> id]
    /\ cons_requested' = id
    /\ cons_pc' = "resolve"
    /\ UNCHANGED <<cons_listed, cons_location, cons_probe,
                   pipeline_state, cons_play, cons_last_msg, cons_stop_cause,
                   cons_exit>>
    /\ UNCHANGED regVars

\* main without --broadcaster_id: list_broadcasts(None) prints the list
\* (its return value is dropped).  With the registry unreachable the
\* handler reads the unassigned `response` and main dies.
cons_list_all(reachable) ==
    /\ cons_pc = "start"
    /\ cons_args' = [broadcaster_id |-> None]
    /\ IF reachable
       THEN list_broadcasts /\ cons_pc' = "prompt"
       ELSE UNCHANGED regVars /\ cons_pc' = "crashed"
    /\ UNCHANGED <<cons_requested, cons_listed, cons_location,
                   cons_probe, pipeline_state, cons_play, cons_last_msg,
                   cons_stop_cause, cons_exit>>

\* broadcaster_id = input()
cons_prompt(typed) ==
    /\ cons_pc = "prompt"
    /\ cons_requested' = typed
    /\ cons_pc' = "resolve"
    /\ UNCHANGED <<cons_args, cons_listed, cons_location, cons_probe,
                   pipeline_state, cons_play, cons_last_msg, cons_stop_cause,
                   cons_exit>>
    /\ UNCHANGED regVars

\* broadcaster_url = list_broadcasts(broadcaster_id); main returns when it
\* is None.
cons_resolve(reachable) ==
    /\ cons_pc = "resolve"
    /\ IF reachable
       THEN /\ list_broadcasts
            /\ cons_listed' = reg_last'.body
            /\ LET broadcaster_url ==
                       LookupStreamUrl(reg_last'.body, cons_requested)
               IN  IF broadcaster_url = None
                   THEN /\ cons_pc' = "not_found"
                        /\ cons_exit' = 0
                        /\ UNCHANGED cons_location
                   ELSE /\ cons_pc' = "resolved"
                        /\ cons_location' = broadcaster_url
                        /\ UNCHANGED cons_exit
       ELSE /\ UNCHANGED regVars
            /\ cons_pc' = "crashed"
            /\ UNCHANGED <<cons_listed, cons_location, cons_exit>>
    /\ UNCHANGED <<cons_args, cons_requested, cons_probe, pipeline_state,
                   cons_play, cons_last_msg, cons_stop_cause>>

\* Gst.parse_launch of the receiving graph for broadcaster_url, then the
\* probe set-up, whose failure is only printed.
cons_build(parsed, located) ==
    /\ cons_pc = "resolved"
    /\ IF parsed
       THEN /\ pipeline_state' = "NULL"
            /\ cons_probe' = located
            /\ cons_pc' = "built"
            /\ UNCHANGED cons_exit
       ELSE /\ cons_pc' = "exit_error"
            /\ cons_exit' = 1
            /\ UNCHANGED <<pipeline_state, cons_probe>>
    /\ UNCHANGED <<cons_args, cons_requested, cons_listed, cons_location,
                   cons_play, cons_last_msg, cons_stop_cause>>
    /\ UNCHANGED regVars

\* ret = pipeline.set_state(Gst.State.PLAYING) and the test of ret.
cons_set_playing(ret) ==
    /\ cons_pc = "built"
    /\ cons_play' = [calls |-> cons_play.calls + 1, ret |-> ret]
    /\ cons_pc' = PlayOutcome(ret).pc
    /\ pipeline_state' = PlayOutcome(ret).state
    /\ cons_exit' = PlayOutcome(ret).exit
    /\ UNCHANGED <<cons_args, cons_requested, cons_listed, cons_location,
                   cons_probe, cons_last_msg, cons_stop_cause>>
    /\ UNCHANGED regVars

\* on_message(bus, message, loop) while loop.run().
cons_on_message(mtype) ==
    /\ cons_pc = "playing"
    /\ cons_last_msg' = mtype
    /\ IF MessageQuitsLoop(mtype)
       THEN cons_pc' = "stopping" /\ cons_stop_cause' = mtype
       ELSE UNCHANGED <<cons_pc, cons_stop_cause>>
    /\ UNCHANGED <<cons_args, cons_requested, cons_listed, cons_location,
                   cons_probe, pipeline_state, cons_play, cons_exit>>
    /\ UNCHANGED regVars

\* Ctrl+C while loop.run().
cons_interrupt ==
    /\ cons_pc = "playing"
    /\ cons_pc' = "stopping"
    /\ cons_stop_cause' = "interrupt"
    /\ UNCHANGED <<cons_args, cons_requested, cons_listed, cons_location,
                   cons_probe, pipeline_state, cons_play, cons_last_msg,
                   cons_exit>>
    /\ UNCHANGED regVars

\* The finally block: pipeline.set_state(Gst.State.NULL).
cons_finally ==
    /\ cons_pc = "stopping"
    /\ pipeline_state' = "NULL"
    /\ cons_pc' = "stopped"
    /\ cons_exit' = 0
    /\ UNCHANGED <<cons_args, cons_requested, cons_listed, cons_location,
                   cons_probe, cons_play, cons_last_msg, cons_stop_cause>>
    /\ UNCHANGED regVars

ConsFinallyStep == cons_finally /\ UNCHANGED <<nonSessionVars, bcVars>>

\* The consumer reads the registry for the last time when it resolves the
\* id; later changes of the registry cannot reach it.
ConsumerStillReads == cons_pc \in {"start", "prompt", "resolve"}

ConsumerNext ==
    \/ \E id \in ConsumerIds :
          cons_start_with_id(id) /\ UNCHANGED <<nonSessionVars, bcVars>>
    \/ \E reachable \in BOOLEAN :
          cons_list_all(reachable) /\ UNCHANGED <<nonSessionVars, bcVars>>
    \/ \E typed \in ConsumerIds :
          cons_prompt(typed) /\ UNCHANGED <<nonSessionVars, bcVars>>
    \/ \E reachable \in BOOLEAN :
          cons_resolve(reachable) /\ UNCHANGED <<nonSessionVars, bcVars>>
    \/ \E parsed \in BOOLEAN, located \in BOOLEAN :
          cons_build(parsed, located) /\ UNCHANGED <<nonSessionVars, bcVars>>
    \/ \E ret \in StateChangeReturns :
          cons_set_playing(ret) /\ UNCHANGED <<nonSessionVars, bcVars>>
    \/ \E mtype \in MessageTypes :
          cons_on_message(mtype) /\ UNCHANGED <<nonSessionVars, bcVars>>
    \/ cons_interrupt /\ UNCHANGED <<nonSessionVars, bcVars>>
    \/ ConsFinallyStep
    \/ \E id \in BroadcasterIds \cup {None}, url \in OtherUrls :
          /\ ConsumerStillReads
          /\ other_register(id, url)
          /\ UNCHANGED <<nonSessionVars, consVars>>
    \/ \E id \in BroadcasterNames :
          /\ ConsumerStillReads
          /\ other_deregister(id)
          /\ UNCHANGED <<nonSessionVars, consVars>>

(***************************************************************************)
(* Registry requests handled in concurrent threads (discovery/app.py       *)
(* under app.run): each handler one access to `broadcasts` at a time       *)
(***************************************************************************)
\* Number of requests in progress at once.
MaxWorkers == 2

Workers == 1..MaxWorkers

Idle == [op |-> "none", id |-> None, pc |-> "idle", status |-> 0]

HandlersInit == handlers = [w \in Workers |-> Idle]

\* The worker takes a new request.
Free(w) == handlers[w].pc \in {"idle", "done"}

\* register_broadcast up to the store: broadcasts[broadcaster_id] = {...}
h_register_store(w, id, url) ==
    /\ Free(w)
    /\ broadcasts' = DictSet(broadcasts, id, NewRecord(RequestBody(id, url)))
    /\ handlers' = [handlers EXCEPT ![w] = [op |-> "register", id |-> id,
                                            pc |-> "stored", status |-> 0]]

\* return jsonify(broadcasts[broadcaster_id]), 201: the key is looked up
\* again, and a key that is gone raises KeyError (status 500).
h_register_respond(w) ==
    /\ handlers[w].pc = "stored"
    /\ handlers' = [handlers EXCEPT
                       ![w].pc = "done",
                       ![w].status = IF DictHas(broadcasts, handlers[w].id)
                                     THEN 201 ELSE 500]
    /\ UNCHANGED broadcasts

\* delete_broadcast: if broadcaster_id not in broadcasts: return 404
h_delete_test(w, id) ==
    /\ Free(w)
    /\ handlers' = [handlers EXCEPT
                       ![w] = IF DictHas(broadcasts, id)
                              THEN [op |-> "delete", id |-> id,
                                    pc |-> "tested", status |-> 0]
                              ELSE [op |-> "delete", id |-> id,
                                    pc |-> "done", status |-> 404]]
    /\ UNCHANGED broadcasts

\* del broadcasts[broadcaster_id]; return 204: del of a key that is gone
\* raises KeyError (status 500).
h_delete_del(w) ==
    /\ handlers[w].pc = "tested"
    /\ IF DictHas(broadcasts, handlers[w].id)
       THEN /\ broadcasts' = DictDel(broadcasts, handlers[w].id)
            /\ handlers' = [handlers EXCEPT ![w].pc = "done",
                                            ![w].status = 204]
       ELSE /\ handlers' = [handlers EXCEPT ![w].pc = "done",
                                            ![w].status = 500]
            /\ UNCHANGED broadcasts

HandlersNext ==
    \/ \E w \in Workers, id \in ExplicitIds, url \in StreamUrls :
          h_register_store(w, id, url) /\ UNCHANGED nonHandlerVars
    \/ \E w \in Workers : h_register_respond(w) /\ UNCHANGED nonHandlerVars
    \/ \E w \in Workers, id \in ExplicitIds :
          h_delete_test(w, id) /\ UNCHANGED nonHandlerVars
    \/ \E w \in Workers : h_delete_del(w) /\ UNCHANGED nonHandlerVars

(***************************************************************************)
(* Specifications                                                          *)
(***************************************************************************)
Init ==
    /\ TapInit /\ RegInit /\ BridgeInit /\ BridgeTapInit /\ ThreadsInit
    /\ PadInit /\ HandlersInit
    /\ BroadcasterInit /\ ConsumerInit

Next ==
    \/ TapNext \/ RegNext \/ BridgeNext \/ AppsinkNext \/ BridgeTapNext
    \/ ThreadsNext \/ PadNext \/ HandlersNext
    \/ BroadcasterNext \/ ConsumerNext

\* The tap alone, the registry idle.
SpecTap == Init /\ [][TapNext]_vars

\* The registry alone, the tap idle.
SpecRegistry == Init /\ [][RegNext]_vars

\* The frame bridge alone.
SpecBridge == Init /\ [][BridgeNext]_vars

\* The appsink alone, with a producer and a puller of any speed.
SpecAppsink == Init /\ [][AppsinkNext]_vars

\* The bridge consumer's tap alone.
SpecBridgeTap == Init /\ [][BridgeTapNext]_vars

\* The bridge consumer's streaming thread and control thread, one
\* statement of on_new_sample's caps handling at a time.
SpecBridgeThreads == Init /\ [][ThreadsNext]_vars

\* The pad-added handler alone.
SpecPadLink == Init /\ [][PadNext]_vars

\* One broadcaster process, the registry it calls, and other clients of
\* that registry.
SpecBroadcaster == Init /\ [][BroadcasterNext]_vars

\* One consumer process, the registry it reads, and the broadcasters that
\* register there.
SpecConsumer == Init /\ [][ConsumerNext]_vars

\* The consumer with its main thread running on: once loop.run() has
\* returned, the finally block is executed.
SpecConsumerFair == SpecConsumer /\ WF_vars(ConsFinallyStep)

\* The registry with its request handlers running in concurrent threads.
SpecRegistryThreads == Init /\ [][HandlersNext]_vars

\* All components together (the product of their state spaces).
Spec == Init /\ [][Next]_vars

(***************************************************************************)
(* Properties of the frame-rate tap (checked under SpecTap)                *)
(***************************************************************************)
StrictlyIncreasing(s) == \A i \in 1..(Len(s) - 1) : s[i] < s[i + 1]

\* C1: for frames with strictly increasing timestamps delivered to a fresh
\* tap, the stored rate is 0.0 after the first frame and exactly
\* 1_000_000_000 / (ti - t(i-1)) after every later one.
C1_RateFromLastTwoTimestamps ==
    (Len(pts_trace) >= 1 /\ StrictlyIncreasing(pts_trace)) =>
        probe_state.current_fps =
            IF Len(pts_trace) = 1 THEN [num |-> 0, den |-> 1]
            ELSE [num |-> 1000000000,
                  den |-> pts_trace[Len(pts_trace)]
                          - pts_trace[Len(pts_trace) - 1]]

\* Three frames at increasing timestamps with two different gaps.
C1_Witness ==
    /\ Len(pts_trace) = 3
    /\ StrictlyIncreasing(pts_trace)
    /\ pts_trace[3] - pts_trace[2] # pts_trace[2] - pts_trace[1]
    /\ probe_state.previous_pts = pts_trace[3]

\* C2: a frame whose timestamp is less than or equal to the previous
\* frame's makes the callback complete without raising, store a finite
\* rate and return OK.
C2_NonPositiveDeltaCompletes ==
    (tap_last.buffer /\ tap_last.prev # CLOCK_TIME_NONE
        /\ tap_last.pts <= tap_last.prev) =>
        /\ tap_last.ret = "OK"
        /\ probe_state.previous_pts = tap_last.pts
        /\ probe_state.current_fps.den # 0

\* C3: current_fps is never negative, and is 0.0 until two frames have
\* been processed.
C3_RateNeverNegative ==
    /\ ~IsNegative(probe_state.current_fps)
    /\ (Len(pts_trace) < 2 => probe_state.current_fps = ZeroFps)

\* C27: when set_property on the overlay fails, the callback has stored
\* the frame's timestamp and the rate computed from it and returns OK.
C27_OverlayFailureIsCaught ==
    tap_last.set = "failed" =>
        /\ tap_last.ret = "OK"
        /\ probe_ret = "OK"
        /\ probe_state.previous_pts = tap_last.pts
        /\ probe_state.current_fps = NextFps(tap_last.prev, tap_last.pts)

\* The overlay could not be set on the second of two frames.
C27_Witness ==
    /\ tap_last.set = "failed"
    /\ tap_last.prev # CLOCK_TIME_NONE
    /\ tap_last.pts > tap_last.prev
    /\ overlay_text # NoText

(***************************************************************************)
(* Properties of the discovery registry (checked under SpecRegistry)       *)
(***************************************************************************)
\* What GET /broadcasts answers in the current state.
ListNow == DictValues(broadcasts)

\* Positions of the listed records that carry broadcaster id id.
ListedFor(id) ==
    {i \in 1..Len(ListNow) : ListNow[i].broadcaster_id = id}

\* Every entry of the earlier mapping other than k is in the current one,
\* with the same value.
OthersKept(k) ==
    \A j \in 1..Len(reg_last.before) :
        reg_last.before[j].key # k =>
            /\ DictHas(broadcasts, reg_last.before[j].key)
            /\ DictGet(broadcasts, reg_last.before[j].key)
                   = reg_last.before[j].value

Registered == reg_last.op = "register" /\ reg_last.status = 201

\* C4: after a successful register for an id not in the registry, list
\* holds exactly one record for it, with the supplied endpoint and with the
\* supplied (or generated) id as broadcaster_id, and every earlier record
\* is still listed unchanged.
C4_RegisterNewThenList ==
    (Registered /\ ~DictHas(reg_last.before, reg_last.id)) =>
        /\ Cardinality(ListedFor(reg_last.id)) = 1
        /\ \A i \in ListedFor(reg_last.id) :
               ListNow[i].stream_url = reg_last.data["stream_url"]
        /\ Len(ListNow) = Len(reg_last.before) + 1
        /\ OthersKept(reg_last.id)

\* C5: register with an explicit id that is already registered overwrites:
\* list shows exactly one record for the id, with the latest endpoint, and
\* the number of records is unchanged.
C5_ExplicitIdOverwrites ==
    (Registered /\ reg_last.data["broadcaster_id"] # None
        /\ DictHas(reg_last.before, reg_last.id)) =>
        /\ Cardinality(ListedFor(reg_last.id)) = 1
        /\ \A i \in ListedFor(reg_last.id) :
               ListNow[i].stream_url = reg_last.data["stream_url"]
        /\ Len(ListNow) = Len(reg_last.before)
        /\ OthersKept(reg_last.id)

\* An explicit id registered again with a different endpoint, next to
\* another record.
C5_Witness ==
    /\ Registered
    /\ reg_last.data["broadcaster_id"] # None
    /\ DictHas(reg_last.before, reg_last.id)
    /\ DictGet(reg_last.before, reg_last.id).stream_url
           # reg_last.data["stream_url"]
    /\ Len(reg_last.before) >= 2

\* C6: deregister of an id that is not registered answers 404 and leaves
\* the registry as it was.
C6_DeleteUnknownIsNotFound ==
    (reg_last.op = "delete" /\ ~DictHas(reg_last.before, reg_last.id)) =>
        /\ reg_last.status = 404
        /\ broadcasts = reg_last.before

\* A DELETE for an unknown id while other records are registered.
C6_Witness ==
    /\ reg_last.op = "delete"
    /\ ~DictHas(reg_last.before, reg_last.id)
    /\ Len(reg_last.before) >= 1
    /\ reg_last.status = 404

\* C7: deregister of a registered id succeeds and removes exactly that
\* record; every other record is still present and unchanged.
C7_DeleteKnownRemovesOnlyThat ==
    (reg_last.op = "delete" /\ DictHas(reg_last.before, reg_last.id)) =>
        /\ reg_last.status = 204
        /\ ~DictHas(broadcasts, reg_last.id)
        /\ Len(broadcasts) = Len(reg_last.before) - 1
        /\ OthersKept(reg_last.id)

\* A DELETE of the oldest of at least two records.
C7_Witness ==
    /\ reg_last.op = "delete"
    /\ Len(reg_last.before) >= 2
    /\ reg_last.before[1].key = reg_last.id
    /\ reg_last.status = 204
    /\ Len(broadcasts) >= 1

\* C8: a register request whose body has no stream_url key is answered
\* with 400 and leaves the registry unchanged.
C8_AbsentStreamUrlIsValidationError ==
    (reg_last.op = "register" /\ "stream_url" \notin DOMAIN reg_last.data) =>
        /\ reg_last.status = 400
        /\ broadcasts = reg_last.before

\* C9: an id generated by register differs from every registered id, so no
\* record is replaced and the number of records grows by one.
C9_GeneratedIdIsFresh ==
    (Registered /\ reg_last.data["broadcaster_id"] = None) =>
        /\ ~DictHas(reg_last.before, reg_last.id)
        /\ Len(broadcasts) = Len(reg_last.before) + 1
        /\ OthersKept(reg_last.id)

\* C10: every stored record's broadcaster_id equals the key it is stored
\* under, so a DELETE of a listed record's broadcaster_id removes it.
C10_RecordIdEqualsKey ==
    \A i \in 1..Len(broadcasts) :
        broadcasts[i].value.broadcaster_id = broadcasts[i].key

\* The last request registered an id that was not in the registry, and the
\* request served in this step is the deregister of that id.
RoundTripStep ==
    /\ Registered
    /\ ~DictHas(reg_last.before, reg_last.id)
    /\ reg_last'.op = "delete"
    /\ reg_last'.id = reg_last.id
    /\ reg_last'.before = broadcasts

\* C11: register of an id that is not in the registry followed by
\* deregister of that id succeeds and leaves the registry exactly as it
\* was before the register; from the empty registry, list is then empty.
C11_RegisterDeleteRoundTrip ==
    [][RoundTripStep =>
          /\ reg_last'.status = 204
          /\ broadcasts' = reg_last.before
          /\ (reg_last.before = <<>> => DictValues(broadcasts') = <<>>)]_vars

\* A deregister of the newest record has succeeded and has left the records
\* that were registered before it.
C11_Witness ==
    /\ reg_last.op = "delete"
    /\ reg_last.status = 204
    /\ Len(reg_last.before) >= 2
    /\ reg_last.before[Len(reg_last.before)].key = reg_last.id
    /\ broadcasts = SubSeq(reg_last.before, 1, Len(reg_last.before) - 1)

\* The step is the handling of a request of kind op that names or yields
\* key k.
RequestStep(op, k) ==
    /\ reg_last'.op = op
    /\ reg_last'.id = k
    /\ reg_last'.before = broadcasts

\* C23: a key of the registry is gone after a step only when the step is a
\* successful deregister of that key, and its record differs after a step
\* only when the step is a register under that key: no register under
\* another key, no list and no passage of time removes or changes it.
C23_RemovedOnlyByDeregister ==
    [][\A i \in 1..Len(broadcasts) :
          LET k == broadcasts[i].key
          IN  /\ ~DictHas(broadcasts', k) =>
                     RequestStep("delete", k) /\ reg_last'.status = 204
              /\ (DictHas(broadcasts', k)
                    /\ DictGet(broadcasts', k) # broadcasts[i].value) =>
                     RequestStep("register", k)]_vars

\* A record made at time 0 is still listed, after a later register under
\* another key and a list, when the clock has moved on.
C23_Witness ==
    /\ now > 0
    /\ reg_last.op = "list"
    /\ Len(broadcasts) >= 2
    /\ broadcasts[1].value.created_at = 0
    /\ broadcasts[2].value.created_at > 0
    /\ reg_last.body[1] = broadcasts[1].value

C24_PushSideFormatFollowsSample ==
    /\ \A i \in 1..Len(pushed) :
           pushed[i].caps = pulled[pushed[i].from].caps
    /\ appsrc_caps = last_caps

\* Two frames pushed in different formats.
C24_Witness ==
    /\ Len(pushed) = 2
    /\ pushed[1].caps # pushed[2].caps
    /\ pulled[2].caps = appsrc_caps

\* Pushes that did not return OK.
FailedPushes == {i \in 1..Len(pushed) : pushed[i].retval # "OK"}

\* C22: a push that returns a result other than OK leaves the callback
\* returning OK; no pulled frame is pushed twice; and a callback that
\* pulls a frame with a format descriptor and returns OK has pushed that
\* frame, also after an earlier push has failed.
C22_FailedPushIsNotFatal ==
    /\ \A i \in FailedPushes : pushed[i].returned = "OK"
    /\ \A i, j \in 1..Len(pushed) :
           i < j => pushed[i].from < pushed[j].from
    /\ (FailedPushes # {} /\ bridge_ret = "OK"
          /\ pulled[Len(pulled)].caps # NoCaps) =>
           pushed[Len(pushed)].from = Len(pulled)

\* A frame pushed after the push of an earlier frame failed.
C22_Witness ==
    /\ Len(pushed) = 2
    /\ pushed[1].retval = "FLUSHING"
    /\ pushed[2].from > pushed[1].from
    /\ bridge_ret = "OK"

\* A step in which the callback runs for one "new-sample" notification.
NotificationStep == new_sample_pending /\ ~new_sample_pending'

\* Every pushed frame is the transform of the pulled frame it names, the
\* pushed frames name pulled frames in increasing order, so none is pushed
\* out of order or twice.
PushedArePulledInOrder ==
    /\ \A i \in 1..Len(pushed) :
           /\ pushed[i].from \in 1..Len(pulled)
           /\ pushed[i].buffer.pts = pulled[pushed[i].from].buffer.pts
           /\ pushed[i].buffer.data
                  = process_frame_opencv(pulled[pushed[i].from].buffer.data)
    /\ \A i \in 1..Len(pushed), j \in 1..Len(pushed) :
           i < j => pushed[i].from < pushed[j].from

\* C33 as claimed: each notification makes the bridge pull exactly one
\* frame and push at most one frame; frames are pushed in the order they
\* were pulled, and no frame is pushed that was not pulled or is pushed
\* twice.
C33_EachNotificationPullsOneFrame ==
    /\ [][NotificationStep =>
              /\ Len(pulled') = Len(pulled) + 1
              /\ Len(pushed') \in {Len(pushed), Len(pushed) + 1}]_vars
    /\ []PushedArePulledInOrder

\* C33 as amended: each notification makes the bridge pull once; the pull
\* takes exactly one frame, the oldest queued, when the appsink holds one,
\* and when it holds none the callback pulls and pushes nothing and
\* returns ERROR.  A notification pushes at most one frame, and only the
\* frame it has just pulled; frames are pushed in the order they were
\* pulled, and no frame is pushed that was not pulled or is pushed twice.
C33_NotificationPullsQueuedFrame ==
    /\ [][NotificationStep =>
              /\ IF appsink_queue # <<>>
                 THEN pulled' = Append(pulled, Head(appsink_queue))
                 ELSE /\ pulled' = pulled
                      /\ pushed' = pushed
                      /\ bridge_ret' = "ERROR"
              /\ Len(pushed') \in {Len(pushed), Len(pushed) + 1}
              /\ Len(pushed') = Len(pushed) + 1 =>
                     pushed'[Len(pushed')].from = Len(pulled')]_vars
    /\ []PushedArePulledInOrder

\* A frame was pulled and pushed, and a later notification found the
\* appsink empty: the callback returned ERROR, nothing more was pulled or
\* pushed, and the last pulled frame is the one that was pushed.
C33_Witness ==
    /\ Len(pulled) = 1
    /\ Len(pushed) = 1
    /\ pushed[1].from = 1
    /\ bridge_ret = "ERROR"
    /\ ~new_sample_pending

(***************************************************************************)
(* Properties of the bridge consumer's tap (checked under SpecBridgeTap)   *)
(***************************************************************************)
\* The rate after the frames of trace t, 0.0 for a single frame.
RateAfter(t) ==
    IF Len(t) = 1 THEN ZeroFps
    ELSE [num |-> NS_PER_SECOND, den |-> t[Len(t)].pts - t[Len(t) - 1].pts]

\* C28: in the bridge consumer, after a frame with a buffer (timestamps
\* increasing, overlay accepting the text) the overlay shows "FPS:"
\* followed by the current rate, which is 0.0 after the first frame.
C28_OverlayShowsPrefixedRate ==
    (/\ Len(fps_trace) >= 1
     /\ fps_trace[Len(fps_trace)].set_ok
     /\ \A i \in 1..(Len(fps_trace) - 1) :
            fps_trace[i].pts < fps_trace[i + 1].pts) =>
        textoverlay_text = BridgeFpsDisplayText(RateAfter(fps_trace))

(***************************************************************************)
(* Properties of the bridge consumer's threads (SpecBridgeThreads)         *)
(***************************************************************************)
\* Invocation i is between its comparison of last_caps and its set_caps.
InCompareUpdate(i) == cb_pc[i] \in {"compared", "stored"}

\* Invocation i has read or is about to read last_caps.
TouchesLastCaps(i) == cb_pc[i] \in {"pulled", "compared", "stored"}

\* C29: while one invocation of on_new_sample is in its compare-and-update
\* of last_caps, no other invocation touches last_caps and the step main
\* is at does not read it; and outside a compare-and-update the push
\* side's caps are last_caps.
C29_CapsUpdateDoesNotInterleave ==
    /\ \A i, j \in Invocations :
           (InCompareUpdate(i) /\ i # j) => ~TouchesLastCaps(j)
    /\ \A i \in Invocations :
           InCompareUpdate(i) => "last_caps" \notin MainReads(main_pc)
    /\ (\A i \in Invocations : ~InCompareUpdate(i)) =>
           appsrc_caps = last_caps

\* A second format is being stored by a later invocation while main is
\* already in its finally block.
C29_Witness ==
    /\ main_pc = "stopping"
    /\ \E i \in Invocations :
           /\ cb_pc[i] = "stored"
           /\ appsrc_caps \notin {NoCaps, last_caps}

(***************************************************************************)
(* Properties of deferred pad linking (checked under SpecPadLink)          *)
(***************************************************************************)
RawVideoPads == {p \in PadNames : IsRawVideo(PadCaps(p))}

\* Invocations for pad p that made a link.
LinksMade(p) == {j \in 1..Len(pad_log[p]) : pad_log[p][j] = "linked"}

VideoTypePads == {p \in PadNames : PadCaps(p) = "video/x-raw"}

\* Pads with a media type that is not raw video.
OtherTypePads == {p \in PadNames \ VideoTypePads : PadCaps(p) # NoCaps}

\* C26: a pad that is not raw video is never linked and never takes the
\* downstream sink, and every callback for a pad of another media type
\* ignores it without an error.
C26_OnlyRawVideoIsLinked ==
    /\ \A p \in PadNames \ VideoTypePads :
           pad_peer[p] = Unlinked /\ sink_peer # p
    /\ \A p \in OtherTypePads :
           \A j \in 1..Len(pad_log[p]) : pad_log[p][j] = "ignored"

\* An audio pad was announced and the sink went to a raw video pad.
C26_Witness ==
    /\ \E p \in OtherTypePads : Len(pad_log[p]) >= 1
    /\ sink_peer \in VideoTypePads

\* Pads that have the downstream sink as their peer.
LinkedPads == {p \in PadNames : pad_peer[p] = "sink"}

\* C32: after any sequence of pad-added callbacks at most one pad is
\* linked to the downstream sink, and it is the pad the sink has as its
\* peer; once the sink has a peer, no later callback (in particular one
\* for a second, distinct raw video pad) replaces that peer or unlinks it.
C32_AtMostOneLinkNeverReplaced ==
    /\ [](/\ Cardinality(LinkedPads) <= 1
          /\ LinkedPads = {p \in PadNames : sink_peer = p})
    /\ [][sink_peer # Unlinked =>
              /\ sink_peer' = sink_peer
              /\ pad_peer'[sink_peer] = "sink"]_vars

\* The sink is linked to one raw video pad, and the callback for a second,
\* distinct raw video pad has run, was refused and left that pad unlinked;
\* a further callback for it would be refused for the sink's peer alone.
C32_Witness ==
    \E p \in VideoTypePads, q \in VideoTypePads :
        /\ p # q
        /\ sink_peer = p /\ pad_peer[p] = "sink"
        /\ Len(pad_log[q]) >= 1
        /\ pad_log[q][Len(pad_log[q])] = "link_failed"
        /\ pad_peer[q] = Unlinked
        /\ PadLinkReturn(pad_peer[q], sink_peer, TRUE) = "WAS_LINKED"

(***************************************************************************)
(* Properties of the broadcaster session (checked under SpecBroadcaster)   *)
(***************************************************************************)
\* C14: register is called on entering playing; whenever the session
\* leaves playing, deregister is called for the id that was registered;
\* and with a reachable registry the broadcaster's record is absent once
\* shutdown completes.
C14_RegisterThenDeregister ==
    /\ (bc_pc = "loop" => bc_reg.called /\ bc_reg.id = bc_args.broadcaster_id)
    /\ (bc_pc \in {"stopped", "crashed_in_finally"} =>
            bc_dereg.called /\ bc_dereg.id = bc_reg.id)
    /\ (bc_pc = "stopped" /\ bc_dereg.reachable =>
            ~DictHas(bc_dereg.after, bc_reg.id))

\* C15: when the deregister request fails (registry unreachable, or an
\* error status), no exception leaves deregister_broadcaster, the request
\* is made once, and the shutdown path runs to its end.
C15_DeregisterFailureIsSwallowed ==
    (bc_dereg.called /\ (~bc_dereg.reachable \/ bc_dereg.status # 204)) =>
        /\ ~bc_dereg.raised
        /\ bc_dereg.calls = 1
        /\ bc_pc = "stopped"

\* C16: the endpoint is registered only after the graph has been built,
\* and a broadcaster whose graph build failed has not been registered.
C16_RegisteredOnlyAfterBuild ==
    /\ (bc_reg.called => bc_media \in {"built", "built_no_probe"})
    /\ (bc_media = "failed" => ~bc_reg.called)

\* C19: the registered stream endpoint is rtsp://<host>:<port>/<id> for
\* the id that is registered, deregistered and mounted.
C19_EndpointNamesTheId ==
    bc_reg.called =>
        /\ \E a \in ServerAddresses :
               bc_reg.stream_url
                   = "rtsp://" \o a \o ":" \o RTSP_PORT \o "/" \o bc_reg.id
        /\ mount_path = bc_reg.id
        /\ (bc_dereg.called => bc_dereg.id = bc_reg.id)

\* The record under this broadcaster's id is the one another broadcaster
\* process registered under the same id, and is still in the registry.
OtherHoldsMyId ==
    /\ bc_reg.called
    /\ DictHas(broadcasts, bc_reg.id)
    /\ DictGet(broadcasts, bc_reg.id).stream_url \in OtherUrls

\* C31: a broadcaster's deregister removes only the record that
\* broadcaster registered: when two broadcaster processes have registered
\* the same id and this one stops, the record of the one still playing
\* remains in the registry.
C31_DeregisterKeepsOthersRecord ==
    [][(OtherHoldsMyId /\ bc_pc = "finally" /\ bc_pc' = "stopped") =>
           /\ DictHas(broadcasts', bc_reg.id)
           /\ DictGet(broadcasts', bc_reg.id)
                  = DictGet(broadcasts, bc_reg.id)]_vars


\* The session is over with what the code does when set_state(PLAYING)
\* has failed.
EndedInError ==
    /\ cons_pc = "exit_error"
    /\ pipeline_state = "NULL"
    /\ cons_exit = 1

\* C17: when set_state(PLAYING) reports FAILURE the consumer session never
\* enters playing (no bus message is handled, no stop is taken), the start
\* is attempted once only, the graph is driven to NULL and the session ends
\* in error.
C17_PlayFailureEndsInError ==
    cons_play.ret = "FAILURE" =>
        /\ EndedInError
        /\ cons_play.calls = 1
        /\ cons_last_msg = "none"
        /\ cons_stop_cause = "none"

C17_Witness == cons_play.ret = "FAILURE" /\ cons_pc = "exit_error"

StopCauses == {"interrupt", "EOS", "ERROR"}

\* C18: a playing consumer that handles EOS or ERROR, or is interrupted,
\* is no longer playing; only those three take it out of playing (WARNING
\* and STATE_CHANGED leave it playing); and once it has left playing the
\* graph is eventually set to NULL and the session ends stopped.
C18_StopEventsEndTheSession ==
    /\ [](cons_pc = "playing" =>
              cons_last_msg \notin {"EOS", "ERROR"} /\ cons_stop_cause = "none")
    /\ [](cons_pc \in {"stopping", "stopped"} => cons_stop_cause \in StopCauses)
    /\ [](cons_pc = "stopped" => pipeline_state = "NULL" /\ cons_exit = 0)
    /\ [][cons_pc = "playing" /\ cons_last_msg' # cons_last_msg
              /\ cons_last_msg' \in {"WARNING", "STATE_CHANGED"}
            => cons_pc' = "playing" /\ pipeline_state' = pipeline_state]_vars
    /\ (cons_pc = "stopping" ~> (cons_pc = "stopped" /\ pipeline_state = "NULL"))

C18_Witness ==
    /\ cons_pc = "stopped"
    /\ cons_stop_cause = "ERROR"
    /\ pipeline_state = "NULL"

\* Positions in the list the consumer got of the records that carry the
\* requested id.
ListedForRequested ==
    {i \in 1..Len(cons_listed) :
        cons_listed[i].broadcaster_id = cons_requested}

\* C20: a graph is built and started only for the stream_url of a listed
\* record whose broadcaster_id is the requested one; when no listed record
\* has that id, nothing is built and no connection is attempted.
C20_GraphOnlyForListedRecord ==
    /\ cons_location # None =>
           \E i \in ListedForRequested :
               cons_listed[i].stream_url = cons_location
    /\ pipeline_state # "none" => cons_location # None
    /\ ListedForRequested = {} =>
           /\ cons_location = None
           /\ pipeline_state = "none"
           /\ cons_play.calls = 0
    /\ cons_pc = "not_found" => ListedForRequested = {}

C20_Witness ==
    /\ cons_pc = "playing"
    /\ Len(cons_listed) >= 2
    /\ cons_listed[1].broadcaster_id # cons_requested
    /\ cons_location # None


\* C21: the appsink never holds more than one unconsumed sample, and the
\* one it holds is the sample that arrived last: an arrival at a full
\* queue drops the older sample and keeps the newer one.
C21_OneOutstandingNewestKept ==
    /\ Len(appsink_queue) <= 1
    /\ appsink_queue # <<>> => appsink_queue[1] = arrived[Len(arrived)]

\* A second sample arrived before the first was pulled.
C21_Witness ==
    /\ Len(arrived) = 2
    /\ pulled = <<>>
    /\ arrived[1] # arrived[2]
    /\ appsink_queue = <<arrived[2]>>


\* C25: the builder returns no graph when the tap or the overlay is not
\* found by name, so a graph without the frame-rate tap is never handed
\* to the server.
C25_BuilderFailsWithoutTap == bc_media # "built_no_probe"


(***************************************************************************)
(* Properties of concurrent registry requests (SpecRegistryThreads)        *)
(***************************************************************************)
\* C30: every register and deregister handled concurrently with others
\* ends as it does in a serial order, a register with 201 and a deregister
\* with 204 or with the not-found error 404; in particular, of two
\* deregisters of one id neither fails in another way.
C30_ConcurrentRequestsAreAtomic ==
    \A w \in Workers :
        handlers[w].pc = "done" =>
            handlers[w].status
                \in (IF handlers[w].op = "register" THEN {201}
                     ELSE {204, 404})

============================================================================
